---- MODULE Spec2Model ----
(***************************************************************************)
(* Model of the tracecat execution core:                                   *)
(*   - tracecat/dsl/action.py: the Action Invocation Controller            *)
(*     (run_action_activity, run_action_with_store_activity);              *)
(*   - tracecat/experimental/actions/_registry.py: the Action Registry and *)
(*     the wrapper it builds around every registered implementation.       *)
(* Strings are modelled as sequences of string fragments, so that          *)
(* formatting (f-strings) is concatenation and can be inspected.           *)
(***************************************************************************)
EXTENDS Integers, Sequences, FiniteSets, TLC

\* ------------------------------------------------------------------ bounds
MaxAttempt == 3
MaxDelay == 2

\* Python's None
None == "None"

\* ------------------------------------------------------------ input domains
Modes == {"memory", "store"}
Refs == {"step1", "step2"}
ActionNames == {"core.fail"}
Attempts == 1..MaxAttempt
Delays == 0..MaxDelay
ResultValues == [raw : {"small", "large"}]
TypeTags == {None, "", "CustomError"}

VARIABLES
    \* ---- Action Invocation Controller (one attempt of one step)
    mode,        \* which activity runs the attempt: memory or store backend
    task,        \* input.task: [ref, action, start_delay]
    attempt,     \* activity.info().attempt
    pc,          \* Pending, Delaying, Dispatching, Succeeded, Failed, Cancelled
    slept,       \* time units spent so far in asyncio.sleep(start_delay)
    dispatched,  \* number of calls made to the execution client
    reply,       \* what the awaited call produced: a value, a handle or an exception
    logs,        \* levels of the log records emitted, in order
    outcome,     \* what leaves the activity: nothing yet, a return or a raise
    \* ---- Action Registry and wrapper invocations
    registry,    \* _udf_registry: key -> RegisteredUDF
    regCalls,    \* number of decorator_register calls made so far
    regResult,   \* the last decorator_register call: its key and how it ended
    readResult,  \* what the last get / get_schemas call returned or raised
    inv,         \* wrapper invocations: id -> record
    env,         \* the execution environment secrets are injected into
    \* ---- Execution-History Correlator
    event,       \* the history event handed to the correlator
    group,       \* outcome of EventGroup.from_scheduled_activity(event)
    failure      \* outcome of EventFailure.from_history_event(event)

ctlVars == <<mode, task, attempt, pc, slept, dispatched, reply, logs, outcome>>
regVars == <<registry, regCalls, regResult, readResult, inv, env>>
histVars == <<event, group, failure>>
vars == <<mode, task, attempt, pc, slept, dispatched, reply, logs, outcome,
          registry, regCalls, regResult, readResult, inv, env,
          event, group, failure>>

\* ======================================================================
\* Exceptions
\* ======================================================================

\* Python class hierarchy of the exception classes that can reach the
\* except clauses (asyncio.CancelledError derives from BaseException).
Mro(cls) ==
    CASE cls = "RegistryActionError" -> {"RegistryActionError", "Exception", "BaseException"}
      [] cls = "ApplicationError"    -> {"ApplicationError", "Exception", "BaseException"}
      [] cls = "ValueError"          -> {"ValueError", "Exception", "BaseException"}
      [] cls = "TimeoutError"        -> {"TimeoutError", "Exception", "BaseException"}
      [] cls = "CancelledError"      -> {"CancelledError", "BaseException"}
      [] OTHER                       -> {cls, "BaseException"}

IsInstance(e, cls) == cls \in Mro(e.cls)

\* DSLTaskErrorInfo(ref=, message=, type=, attempt=)
DSLTaskErrorInfo(ref, message, type, att) ==
    [ref |-> ref, message |-> message, type |-> type, attempt |-> att]

\* temporalio ApplicationError(message, *details, type=None, non_retryable=False)
ApplicationError(message, details, type, non_retryable) ==
    [cls |-> "ApplicationError", message |-> message, details |-> details,
     type |-> type, non_retryable |-> non_retryable]

\* The domain error of an action: a message, a detail and the retry intent
\* the action set on it.
RegistryActionErrors ==
    [cls : {"RegistryActionError"}, msg : {<<"boom">>}, detail : {<<"boom">>},
     retryable : BOOLEAN]

\* Structured failures of a nested call; they may already carry the error
\* info of the attempt that produced them.
NestedApplicationErrors ==
    { ApplicationError(<<"nested">>, d, t, nr) :
        d \in {<<>>} \cup { <<DSLTaskErrorInfo("inner", <<"nested">>, "Inner", a)>> : a \in Attempts },
        t \in TypeTags, nr \in BOOLEAN }

UnknownErrors == [cls : {"ValueError", "TimeoutError"}, msg : {<<"bad">>}]

CancelledError == [cls |-> "CancelledError", msg |-> <<>>]

\* Everything the awaited client call can raise by itself.
DispatchExceptions == RegistryActionErrors \cup NestedApplicationErrors \cup UnknownErrors

\* str(e)
Str(e) == IF e.cls = "ApplicationError" THEN e.message ELSE e.msg

\* ======================================================================
\* Action Invocation Controller
\* ======================================================================

context_locator(t, loc) == <<t.action, "@", t.ref>>

_contextualize_message(t, msg, att) ==
    <<"[">> \o context_locator(t, "run_action") \o <<"] (Attempt ", ToString(att), ")\n\n">> \o msg

\* The awaited call: still pending, returned r, or raised e.
NoReply == [kind |-> "none"]
Returned(r) == [kind |-> "return", value |-> r]
Raised(e) == [kind |-> "raise", exc |-> e]

NoOutcome == [kind |-> "none"]
Return(v) == [kind |-> "return", value |-> v]
Raise(e) == [kind |-> "raise", exc |-> e]

\* What a handler does with an exception: the log records it emits and
\* the exception that leaves it.
Handled(lg, e) == [logs |-> lg, exc |-> e]

\* Variant of OnRegistryActionError: the failure is raised without a type.
OnRegistryActionErrorUntagged(e, t, att) ==
    LET kind == e.cls
        msg == Str(e)
        err_locator == _contextualize_message(t, msg, att)
        err_info == DSLTaskErrorInfo(t.ref, msg, kind, att)
    IN Handled(<<"error">>, ApplicationError(err_locator, <<err_info>>, None, FALSE))

\* except RegistryActionError as e:
OnRegistryActionError(e, t, att) ==
    LET kind == e.cls
        msg == Str(e)
        err_locator == _contextualize_message(t, msg, att)
        err_info == DSLTaskErrorInfo(t.ref, msg, kind, att)
    IN Handled(<<"error">>, ApplicationError(err_locator, <<err_info>>, kind, FALSE))

\* Variant of OnApplicationError: the attempt of the error info the nested
\* failure already carries is kept, and its retryability is not forwarded.
OnApplicationErrorStale(e, t, att) ==
    LET a == IF Len(e.details) > 0 THEN e.details[1].attempt ELSE att
        err_info == DSLTaskErrorInfo(t.ref, Str(e),
                        IF e.type \in {None, ""} THEN e.cls ELSE e.type, a)
    IN Handled(<<"error">>,
               ApplicationError(_contextualize_message(t, e.message, a),
                                <<err_info>>, e.type, FALSE))

\* except ApplicationError as e:
OnApplicationError(e, t, att) ==
    LET err_info == DSLTaskErrorInfo(t.ref, Str(e),
                        IF e.type \in {None, ""} THEN e.cls ELSE e.type, att)
    IN Handled(<<"error">>,
               ApplicationError(_contextualize_message(t, e.message, att),
                                <<err_info>>, e.type, e.non_retryable))

\* Variant of OnUnknownError: non_retryable is left at its default.
OnUnknownErrorRetryable(e, t, att) ==
    LET kind == e.cls
        raw_msg == <<kind, " occurred:\n">> \o Str(e)
        err_info == DSLTaskErrorInfo(t.ref, raw_msg, kind, att)
    IN Handled(<<"error">>,
               ApplicationError(_contextualize_message(t, raw_msg, att),
                                <<err_info>>, kind, FALSE))

\* except Exception as e:   (memory backend)
OnUnknownError(e, t, att) ==
    LET kind == e.cls
        raw_msg == <<kind, " occurred:\n">> \o Str(e)
        err_info == DSLTaskErrorInfo(t.ref, raw_msg, kind, att)
    IN Handled(<<"error">>,
               ApplicationError(_contextualize_message(t, raw_msg, att),
                                <<err_info>>, kind, TRUE))

\* Variant of MemoryCatchAll: the last clause catches BaseException.
MemoryCatchBase == "BaseException"

\* The class named by the last except clause of run_action_activity.
MemoryCatchAll == "Exception"

\* The try statement of run_action_activity: the first matching clause wins,
\* an exception no clause matches propagates unchanged.
MemoryExcept(e, t, att) ==
    IF IsInstance(e, "RegistryActionError") THEN OnRegistryActionError(e, t, att)
    ELSE IF IsInstance(e, "ApplicationError") THEN OnApplicationError(e, t, att)
    ELSE IF IsInstance(e, MemoryCatchAll) THEN OnUnknownError(e, t, att)
    ELSE Handled(<<>>, e)

\* Variant of OnStoreError: the exception is logged and re-raised as it is.
OnStoreErrorReraise(e, t, att) == Handled(<<"error">>, e)

\* except Exception as e:   (store backend)
OnStoreError(e, t, att) ==
    LET kind == e.cls
    IN Handled(<<>>,
               ApplicationError(_contextualize_message(t, Str(e), att),
                                <<DSLTaskErrorInfo(t.ref, Str(e), kind, att)>>,
                                None, FALSE))

\* The class named by the only except clause of run_action_with_store_activity.
StoreCatchAll == "Exception"

StoreExcept(e, t, att) ==
    IF IsInstance(e, StoreCatchAll) THEN OnStoreError(e, t, att)
    ELSE Handled(<<>>, e)

Except(m, e, t, att) ==
    IF m = "memory" THEN MemoryExcept(e, t, att) ELSE StoreExcept(e, t, att)

\* The handle the store backend returns, and the pointer made of it.
Handle(v) == [key |-> <<"store://", v.raw>>, value |-> v]
to_pointer(h) == [ptr |-> h.key]

\* return await client.run_action_memory_backend(input)
MemorySuccess(v) == Return(v)

\* Variant of StoreSuccess: the value behind the handle is returned.
StoreSuccessInline(h) == Return(h.value)

\* handle = await client.run_action_store_backend(input); return handle.to_pointer()
StoreSuccess(h) == Return(to_pointer(h))

\* Variant of EndState: a failure that may be retried sends the attempt back
\* to the client call.
EndStateRedispatch(e) ==
    IF e.cls = "CancelledError" THEN "Cancelled"
    ELSE IF e.non_retryable THEN "Failed"
    ELSE "Dispatching"

\* The attempt's state once an exception has left the activity.
EndState(e) ==
    IF e.cls = "CancelledError" THEN "Cancelled" ELSE "Failed"

\* Variant of HasDelay: the start delay is ignored.
HasDelayNever(t) == FALSE

\* Whether the activity suspends in asyncio.sleep before dispatching.
HasDelay(t) == t.start_delay > 0

\* The activity runs from its entry to its first await: the sleep when the
\* task has a start delay, the client call otherwise.
Begin ==
    /\ pc = "Pending"
    /\ IF HasDelay(task)
       THEN /\ pc' = "Delaying"
            /\ logs' = logs \o <<"info", "info">>
            /\ dispatched' = dispatched
       ELSE /\ pc' = "Dispatching"
            /\ logs' = logs \o <<"info">>
            /\ dispatched' = dispatched + 1
    /\ UNCHANGED <<mode, task, attempt, slept, reply, outcome, regVars, histVars>>

\* One time unit passes while the attempt sleeps.
Tick ==
    /\ pc = "Delaying"
    /\ slept < task.start_delay
    /\ slept' = slept + 1
    /\ UNCHANGED <<mode, task, attempt, pc, dispatched, reply, logs, outcome, regVars, histVars>>

\* asyncio.sleep returns; the activity enters the try block and calls the client.
DelayElapsed ==
    /\ pc = "Delaying"
    /\ slept = task.start_delay
    /\ pc' = "Dispatching"
    /\ dispatched' = dispatched + 1
    /\ UNCHANGED <<mode, task, attempt, slept, reply, logs, outcome, regVars, histVars>>

\* The executor cancels the attempt while it sleeps: CancelledError is
\* raised by the await outside the try statement.
CancelDuringDelay ==
    /\ pc = "Delaying"
    /\ reply' = Raised(CancelledError)
    /\ outcome' = Raise(CancelledError)
    /\ pc' = EndState(CancelledError)
    /\ UNCHANGED <<mode, task, attempt, slept, dispatched, logs, regVars, histVars>>

\* The awaited client call raises e inside the try statement.
RaiseInTry(e) ==
    LET h == Except(mode, e, task, attempt)
    IN /\ reply' = Raised(e)
       /\ outcome' = Raise(h.exc)
       /\ logs' = logs \o h.logs
       /\ pc' = EndState(h.exc)
       /\ UNCHANGED <<mode, task, attempt, slept, dispatched, regVars, histVars>>

\* The executor cancels the attempt while the client call is awaited.
CancelDuringDispatch ==
    /\ pc = "Dispatching"
    /\ RaiseInTry(CancelledError)

DispatchRaises ==
    /\ pc = "Dispatching"
    /\ \E e \in DispatchExceptions : RaiseInTry(e)

DispatchReturns ==
    /\ pc = "Dispatching"
    /\ \E v \in ResultValues :
          LET r == IF mode = "memory" THEN v ELSE Handle(v)
          IN /\ reply' = Returned(r)
             /\ outcome' = IF mode = "memory" THEN MemorySuccess(r) ELSE StoreSuccess(r)
    /\ pc' = "Succeeded"
    /\ UNCHANGED <<mode, task, attempt, slept, dispatched, logs, regVars, histVars>>

\* No event has been handed to the correlator.
HistIdle ==
    /\ event = None
    /\ group = None
    /\ failure = None

\* The result of the last read of the registry.
NoRead == [op |-> "none", status |-> None, value |-> [none |-> TRUE]]

RegIdle ==
    /\ registry = <<>>
    /\ regCalls = 0
    /\ regResult = [status |-> None, key |-> <<>>, callable |-> FALSE]
    /\ readResult = NoRead
    /\ inv = <<>>
    /\ env = <<>>

CtlInit ==
    /\ mode \in Modes
    /\ task \in [ref : Refs, action : ActionNames, start_delay : Delays]
    /\ attempt \in Attempts
    /\ pc = "Pending"
    /\ slept = 0
    /\ dispatched = 0
    /\ reply = NoReply
    /\ logs = <<>>
    /\ outcome = NoOutcome
    /\ RegIdle
    /\ HistIdle

CtlNext ==
    \/ Begin
    \/ Tick
    \/ DelayElapsed
    \/ CancelDuringDelay
    \/ CancelDuringDispatch
    \/ DispatchRaises
    \/ DispatchReturns

SpecCtl == CtlInit /\ [][CtlNext]_vars

\* ======================================================================
\* Action Registry
\* ======================================================================

MaxRegister == 3

DEFAULT_NAMESPACE == "core"
Namespaces == {DEFAULT_NAMESPACE}

\* Declared parameters of the implementations: name -> (annotation, required).
ParamsAdd == [a |-> [type |-> "int", required |-> TRUE],
              b |-> [type |-> "int", required |-> FALSE]]
ParamsFetch == [a |-> [type |-> "int", required |-> TRUE]]

\* The objects handed to the decorator: a plain function, a coroutine
\* function, an object that has a __name__ but cannot be called, and an
\* object that has neither.
FnAdd == [id |-> "add", name |-> "add", callable |-> TRUE, async |-> FALSE,
          params |-> ParamsAdd]
FnFetch == [id |-> "fetch", name |-> "fetch", callable |-> TRUE, async |-> TRUE,
            params |-> ParamsFetch]
FnModule == [id |-> "module", name |-> "add", callable |-> FALSE, async |-> FALSE,
             params |-> <<>>]
FnNumber == [id |-> "number", name |-> None, callable |-> FALSE, async |-> FALSE,
             params |-> <<>>]
Fns == {FnAdd, FnFetch, FnModule, FnNumber}

SecretNames == {"s1", "s2"}
\* secrets=None and secrets=[] both declare no secret.
SecretOptions == {{}, {"s1"}, {"s2"}}

\* key = f"{namespace}.{fn.__name__}"
KeyOf(namespace, fn) == <<namespace, ".", fn.name>>

\* _generate_model_from_function: one field per declared parameter, required
\* when the parameter has no default.
_generate_model_from_function(fn) == fn.params

\* The closure built for fn: it remembers the key, the implementation and
\* the declared secrets of its own registration.
WrappedFn(key, fn, secrets) == [key |-> key, impl |-> fn.id, async |-> fn.async,
                                secrets |-> secrets]

RegisteredUDF(key, fn, namespace, description, secrets) ==
    [fn |-> WrappedFn(key, fn, secrets),
     namespace |-> namespace,
     version |-> None,
     description |-> description,
     secrets |-> secrets,
     args_cls |-> _generate_model_from_function(fn)]

\* The result of one decorator_register call, in the order of its checks.
RegisterStatus(reg, namespace, fn) ==
    IF fn.name = None THEN "AttributeError"
    ELSE IF KeyOf(namespace, fn) \in DOMAIN reg THEN "DuplicateKey"
    ELSE IF ~fn.callable THEN "NotCallable"
    ELSE "registered"

\* Variant of RegistryAfter: the entry is written before the key is looked
\* up, so a call that ends in DuplicateKey has already replaced the entry.
RegistryAfterOverwrite(reg, status, key, udf) ==
    IF status \in {"registered", "DuplicateKey"}
    THEN [k \in DOMAIN reg \cup {key} |-> IF k = key THEN udf ELSE reg[k]]
    ELSE reg

\* Variant of RegistryAfter: a successful call starts the mapping afresh
\* with its own entry.
RegistryAfterReset(reg, status, key, udf) ==
    IF status = "registered" THEN [k \in {key} |-> udf] ELSE reg

\* self._udf_registry[key] = RegisteredUDF(...): reached only by a call that
\* passed every check.
RegistryAfter(reg, status, key, udf) ==
    IF status = "registered"
    THEN [k \in DOMAIN reg \cup {key} |-> IF k = key THEN udf ELSE reg[k]]
    ELSE reg

\* args_cls.model_json_schema(): the declared fields and the required ones.
model_json_schema(args_cls) ==
    [properties |-> DOMAIN args_cls,
     required |-> { f \in DOMAIN args_cls : args_cls[f].required }]

\* RegisteredUDF.construct_schema; the return type adapter of a function
\* without a return annotation is TypeAdapter(Any), whose schema is empty.
construct_schema(udf) ==
    [args |-> model_json_schema(udf.args_cls), rtype |-> <<>>]

\* _Registry.get_schemas
get_schemas(reg) == [key \in DOMAIN reg |-> construct_schema(reg[key])]

\* _Registry.get: the entry, or the KeyError of the dictionary lookup.
get(reg, name) ==
    IF name \in DOMAIN reg
    THEN [op |-> "get", status |-> "ok", value |-> reg[name]]
    ELSE [op |-> "get", status |-> "KeyError", value |-> [missing |-> name]]

\* The keys a caller looks up.
LookupKeys == { KeyOf(namespace, fn) : namespace \in Namespaces, fn \in {FnAdd, FnFetch} }

\* registry.get(name)
Get ==
    /\ \E name \in LookupKeys : readResult' = get(registry, name)
    /\ UNCHANGED <<registry, regCalls, regResult, inv, env, ctlVars, histVars>>

\* registry.get_schemas()
GetSchemas ==
    /\ readResult' = [op |-> "get_schemas", status |-> "ok",
                      value |-> [schemas |-> get_schemas(registry)]]
    /\ UNCHANGED <<registry, regCalls, regResult, inv, env, ctlVars, histVars>>

\* registry.register(description=, secrets=, namespace=)(fn)
Register ==
    /\ regCalls < MaxRegister
    /\ \E fn \in Fns, namespace \in Namespaces, secrets \in SecretOptions :
          LET status == RegisterStatus(registry, namespace, fn)
              key == IF fn.name = None THEN <<>> ELSE KeyOf(namespace, fn)
              udf == RegisteredUDF(key, fn, namespace, <<"description of ", fn.id>>, secrets)
          IN /\ registry' = RegistryAfter(registry, status, key, udf)
             /\ regResult' = [status |-> status, key |-> key, callable |-> fn.callable]
    /\ regCalls' = regCalls + 1
    /\ UNCHANGED <<readResult, inv, env, ctlVars, histVars>>

\* ======================================================================
\* Wrapper invocations and the Secret Sandbox
\* ======================================================================

Invocations == {"A", "B"}

\* Role(type="service") when the caller passes no __role
ServiceRole == "service"
RoleArgs == {None, "u1"}
RoleOf(roleArg) == IF roleArg = None THEN ServiceRole ELSE roleArg

IntVal(n) == [type |-> "int", v |-> n]
StrVal(x) == [type |-> "str", v |-> x]

\* The keyword arguments a caller may pass (without __role).
KwargsOptions ==
    { [a |-> IntVal(1)],                               \* b takes its default
      [a |-> IntVal(1), b |-> IntVal(2)],
      [b |-> IntVal(2)],                               \* a is missing
      [a |-> StrVal("1")],                          \* a has the wrong type
      [a |-> IntVal(1), c |-> IntVal(3)] }                \* c is not declared

\* args_cls.model_validate(kwargs, strict=True): every required field is
\* present and every declared field that is present has exactly the declared
\* type; a key that is no field of the model is ignored.
model_validate(args_cls, kwargs) ==
    /\ \A f \in DOMAIN args_cls : args_cls[f].required => f \in DOMAIN kwargs
    /\ \A f \in DOMAIN args_cls \cap DOMAIN kwargs : kwargs[f].type = args_cls[f].type

\* Variant of _validate_args: positional arguments are not looked at.
_validate_argsKwOnly(reg, key, npos, kwargs) ==
    IF ~model_validate(reg[key].args_cls, kwargs) THEN "ArgsValidationFailed"
    ELSE "ok"

\* _validate_args(*args, **kwargs): the error it raises, or "ok".
_validate_args(reg, key, npos, kwargs) ==
    IF npos > 0 THEN "KeywordArgsRequired"
    ELSE IF ~model_validate(reg[key].args_cls, kwargs) THEN "ArgsValidationFailed"
    ELSE "ok"

\* fn(**kwargs): Python binds the keywords to the parameters before the body
\* runs and raises TypeError for a keyword that names no parameter.
Binds(args_cls, kwargs) == DOMAIN kwargs \subseteq DOMAIN args_cls

\* What the implementations compute.
ImplValue(impl, kwargs) ==
    IF impl = "add"
    THEN kwargs["a"].v + (IF "b" \in DOMAIN kwargs THEN kwargs["b"].v ELSE 0)
    ELSE kwargs["a"].v

\* The value a secret name resolves to for an identity.
SecretValue(name, role) == <<name, role>>

\* AuthSandbox.__enter__ / __aenter__: each declared secret is resolved for
\* the role and injected into the execution environment.
SandboxEnter(e, secrets, role) ==
    [k \in DOMAIN e \cup secrets |-> IF k \in secrets THEN SecretValue(k, role) ELSE e[k]]

\* AuthSandbox.__exit__ / __aexit__: the environment is cleaned of the
\* declared secrets.
SandboxExit(e, secrets) == [k \in DOMAIN e \ secrets |-> e[k]]

\* Variant of WithExit: the sandbox is left by a plain call after the
\* implementation, which an exception or a cancellation skips.
WithExitOnReturnOnly(how, e, secrets) ==
    IF how = "return" THEN [env |-> SandboxExit(e, secrets), open |-> FALSE]
    ELSE [env |-> e, open |-> TRUE]

\* Leaving the with / async with block, however it is left (return, raise,
\* cancel): the context manager's exit runs.
WithExit(how, e, secrets) == [env |-> SandboxExit(e, secrets), open |-> FALSE]

\* An invocation: the wrapper called (w), the arguments of the call (npos
\* positional ones, kwargs, role), whether its sandbox was opened at all and
\* is open now, whether its implementation ran and what it saw, the result.
Idle == [pc |-> "idle", w |-> None, role |-> None, npos |-> 0, kwargs |-> <<>>,
         opened |-> FALSE, open |-> FALSE, ran |-> FALSE, seen |-> <<>>,
         result |-> None]

Ended == {"returned", "raised", "cancelled"}

\* Variant of Rejected: the arguments are checked inside the with block, so
\* the sandbox has been opened, and closed again, when the error leaves.
RejectedInsideSandbox(w, role, npos, kwargs, err) ==
    [pc |-> "raised", w |-> w, role |-> role, npos |-> npos, kwargs |-> kwargs,
     opened |-> TRUE, open |-> FALSE, ran |-> FALSE, seen |-> <<>>,
     result |-> err]

\* The invocation ended before the sandbox was reached.
Rejected(w, role, npos, kwargs, err) ==
    [pc |-> "raised", w |-> w, role |-> role, npos |-> npos, kwargs |-> kwargs,
     opened |-> FALSE, open |-> FALSE, ran |-> FALSE, seen |-> <<>>,
     result |-> err]

\* The sync wrapper: validation, role, sandbox, implementation and the exit
\* of the with block run without a suspension point.
CallSync(i) ==
    /\ i \in DOMAIN inv
    /\ inv[i].pc = "idle"
    /\ \E key \in DOMAIN registry, roleArg \in RoleArgs, npos \in 0..1,
          kwargs \in KwargsOptions, how \in {"return", "raise"} :
          LET w == registry[key].fn
              role == RoleOf(roleArg)
              v == _validate_args(registry, w.key, npos, kwargs)
              entered == SandboxEnter(env, w.secrets, role)
              binds == Binds(registry[w.key].args_cls, kwargs)
              exit == IF binds THEN how ELSE "raise"
              left == WithExit(exit, entered, w.secrets)
          IN /\ ~w.async
             /\ IF v # "ok"
                THEN /\ inv' = [inv EXCEPT ![i] = Rejected(w, role, npos, kwargs, v)]
                     /\ env' = env
                ELSE /\ inv' = [inv EXCEPT ![i] =
                           [pc |-> IF exit = "return" THEN "returned" ELSE "raised",
                            w |-> w, role |-> role, npos |-> npos, kwargs |-> kwargs,
                            opened |-> TRUE,
                            open |-> left.open,
                            ran |-> binds,
                            seen |-> IF binds THEN entered ELSE <<>>,
                            result |-> IF ~binds THEN "TypeError"
                                       ELSE IF how = "raise" THEN "ImplError"
                                       ELSE ImplValue(w.impl, kwargs)]]
                     /\ env' = left.env
    /\ UNCHANGED <<registry, regCalls, regResult, readResult, ctlVars, histVars>>

\* The async wrapper up to its first suspension point, the sandbox's
\* asynchronous entry.
CallAsync(i) ==
    /\ i \in DOMAIN inv
    /\ inv[i].pc = "idle"
    /\ \E key \in DOMAIN registry, roleArg \in RoleArgs, npos \in 0..1,
          kwargs \in KwargsOptions :
          LET w == registry[key].fn
              role == RoleOf(roleArg)
              v == _validate_args(registry, w.key, npos, kwargs)
          IN /\ w.async
             /\ inv' = [inv EXCEPT ![i] =
                   IF v # "ok" THEN Rejected(w, role, npos, kwargs, v)
                   ELSE [pc |-> "entering", w |-> w, role |-> role, npos |-> npos,
                         kwargs |-> kwargs, opened |-> FALSE, open |-> FALSE,
                         ran |-> FALSE, seen |-> <<>>, result |-> None]]
    /\ UNCHANGED <<registry, regCalls, regResult, readResult, env, ctlVars, histVars>>

\* The sandbox is entered and the implementation is called: it runs to its
\* first await, or the call itself fails.
EnterAsync(i) ==
    /\ i \in DOMAIN inv
    /\ inv[i].pc = "entering"
    /\ LET c == inv[i]
           entered == SandboxEnter(env, c.w.secrets, c.role)
           binds == Binds(registry[c.w.key].args_cls, c.kwargs)
           left == WithExit("raise", entered, c.w.secrets)
       IN IF binds
          THEN /\ inv' = [inv EXCEPT ![i] =
                     [c EXCEPT !.pc = "running", !.opened = TRUE, !.open = TRUE,
                               !.ran = TRUE, !.seen = entered]]
               /\ env' = entered
          ELSE /\ inv' = [inv EXCEPT ![i] =
                     [c EXCEPT !.pc = "raised", !.opened = TRUE, !.open = left.open,
                               !.result = "TypeError"]]
               /\ env' = left.env
    /\ UNCHANGED <<registry, regCalls, regResult, readResult, ctlVars, histVars>>

\* The invocation is cancelled while the sandbox's entry is awaited.
CancelEntering(i) ==
    /\ i \in DOMAIN inv
    /\ inv[i].pc = "entering"
    /\ inv' = [inv EXCEPT ![i] =
          [inv[i] EXCEPT !.pc = "cancelled", !.result = "CancelledError"]]
    /\ UNCHANGED <<registry, regCalls, regResult, readResult, env, ctlVars, histVars>>

\* The suspended implementation is resumed: it reads the environment again
\* and returns or raises, or a cancellation is raised at its await; the
\* async with block is left.
ResumeAsync(i) ==
    /\ i \in DOMAIN inv
    /\ inv[i].pc = "running"
    /\ \E how \in {"return", "raise", "cancel"} :
          LET c == inv[i]
              left == WithExit(how, env, c.w.secrets)
          IN /\ inv' = [inv EXCEPT ![i] =
                   [c EXCEPT !.pc = CASE how = "return" -> "returned"
                                      [] how = "raise" -> "raised"
                                      [] OTHER -> "cancelled",
                             !.open = left.open,
                             !.seen = IF how = "cancel" THEN c.seen ELSE env,
                             !.result = CASE how = "return" -> ImplValue(c.w.impl, c.kwargs)
                                          [] how = "raise" -> "ImplError"
                                          [] OTHER -> "CancelledError"]]
             /\ env' = left.env
    /\ UNCHANGED <<registry, regCalls, regResult, readResult, ctlVars, histVars>>

\* The caller is done with an ended invocation.
Forget(i) ==
    /\ i \in DOMAIN inv
    /\ inv[i].pc \in Ended
    /\ inv' = [inv EXCEPT ![i] = Idle]
    /\ UNCHANGED <<registry, regCalls, regResult, readResult, env, ctlVars, histVars>>

CtlIdle ==
    /\ mode = "memory"
    /\ task = [ref |-> "step1", action |-> "core.fail", start_delay |-> 0]
    /\ attempt = 1
    /\ pc = "Pending"
    /\ slept = 0
    /\ dispatched = 0
    /\ reply = NoReply
    /\ logs = <<>>
    /\ outcome = NoOutcome

RegInit ==
    /\ registry = <<>>
    /\ regCalls = 0
    /\ regResult = [status |-> None, key |-> <<>>, callable |-> FALSE]
    /\ readResult = NoRead
    /\ inv = [i \in Invocations |-> Idle]
    /\ env = <<>>
    /\ CtlIdle
    /\ HistIdle

RegNext ==
    \/ Register
    \/ \E i \in Invocations :
          \/ CallSync(i)
          \/ CallAsync(i)
          \/ EnterAsync(i)
          \/ CancelEntering(i)
          \/ ResumeAsync(i)
          \/ Forget(i)

SpecReg == RegInit /\ [][RegNext]_vars

\* One caller at a time uses the registry: it registers, looks up, lists
\* the schemas and invokes wrappers.
Readers == {"A"}

ReadInit ==
    /\ registry = <<>>
    /\ regCalls = 0
    /\ regResult = [status |-> None, key |-> <<>>, callable |-> FALSE]
    /\ readResult = NoRead
    /\ inv = [i \in Readers |-> Idle]
    /\ env = <<>>
    /\ CtlIdle
    /\ HistIdle

ReadNext ==
    \/ Register
    \/ Get
    \/ GetSchemas
    \/ \E i \in Readers :
          \/ CallSync(i)
          \/ CallAsync(i)
          \/ EnterAsync(i)
          \/ CancelEntering(i)
          \/ ResumeAsync(i)
          \/ Forget(i)

SpecRead == ReadInit /\ [][ReadNext]_vars

\* ======================================================================
\* Execution-History Correlator
\* ======================================================================

MaxKeyLen == 5

\* Action keys are strings over a small alphabet that holds the delimiter.
KeyChars == {"a", "b", "."}
ActionKeys == UNION { [1..n -> KeyChars] : n \in 0..MaxKeyLen }

\* s.split(d): the pieces of s between the occurrences of d, scanning from
\* position i with the piece cur begun.
RECURSIVE SplitFrom(_, _, _, _)
SplitFrom(s, d, i, cur) ==
    IF i > Len(s) THEN <<cur>>
    ELSE IF s[i] = d THEN <<cur>> \o SplitFrom(s, d, i + 1, <<>>)
    ELSE SplitFrom(s, d, i + 1, Append(cur, s[i]))

Split(s, d) == SplitFrom(s, d, 1, <<>>)

\* sep.join(parts)
RECURSIVE Join(_, _)
Join(parts, sep) ==
    IF Len(parts) = 0 THEN <<>>
    ELSE IF Len(parts) = 1 THEN parts[1]
    ELSE parts[1] \o <<sep>> \o Join(Tail(parts), sep)

\* Variant of destructure_slugified_namespace: the key is cut at its first
\* delimiter.
destructure_at_first_delimiter(s, delimiter) ==
    LET parts == Split(s, delimiter)
    IN IF Len(parts) = 1 THEN <<<<>>, parts[1]>>
       ELSE <<parts[1], Join(Tail(parts), ".")>>

\* *stem, leaf = s.split(delimiter); return (".".join(stem), leaf)
destructure_slugified_namespace(s, delimiter) ==
    LET parts == Split(s, delimiter)
        stem == SubSeq(parts, 1, Len(parts) - 1)
        leaf == parts[Len(parts)]
    IN <<Join(stem, "."), leaf>>

\* The event types the correlator knows, and one it does not.
EventHistoryType ==
    {"WORKFLOW_EXECUTION_STARTED", "WORKFLOW_EXECUTION_COMPLETED",
     "WORKFLOW_EXECUTION_FAILED", "ACTIVITY_TASK_SCHEDULED",
     "ACTIVITY_TASK_STARTED", "ACTIVITY_TASK_COMPLETED", "ACTIVITY_TASK_FAILED"}
EventTypes == EventHistoryType \cup {"TIMER_STARTED"}

EventIds == {1, 2}

\* The recorded input of a scheduled step, as the JSON document written to
\* the payload.
InputDocs ==
    { [task |-> [id |-> id, ref |-> "step1", action |-> k, title |-> "Step 1",
                 description |-> "first step"],
       run_context |-> [wf_id |-> "wf-1"]] :
        id \in {None, "act-1"}, k \in ActionKeys }

\* A payload's data: bytes that are a JSON document, or are not.
JsonBytes(doc) == [json |-> TRUE, doc |-> doc]
Garbage == [json |-> FALSE, doc |-> <<>>]

\* The payload lists a scheduled event may carry: none, one input, bytes
\* that are no JSON, a document without a task, and two payloads.
PayloadLists ==
    {<<>>, <<Garbage>>, <<JsonBytes([run_context |-> [wf_id |-> "wf-1"]])>>}
    \cup { <<JsonBytes(d)>> : d \in InputDocs }
    \cup { <<JsonBytes(d), Garbage>> : d \in { x \in InputDocs : Len(x.task.action) = 1 } }

\* Failure messages of the executor: only the fields that are set are held.
AppFailureInfo == [type |-> "ValueError", non_retryable |-> TRUE]
InnerFailure == [message |-> "boom", stack_trace |-> "traceback",
                 application_failure_info |-> AppFailureInfo]
OuterFailure == [message |-> "activity failed", cause |-> InnerFailure]
UnsetMessage == <<>>
Failures == {UnsetMessage, InnerFailure, OuterFailure}

FailedTypes == {"ACTIVITY_TASK_FAILED", "WORKFLOW_EXECUTION_FAILED"}

\* A history event: the attributes of its own type are set, all others are
\* the unset message.
HistoryEvents ==
    { [event_id |-> n, event_type |-> "ACTIVITY_TASK_SCHEDULED", payloads |-> ps,
       failure |-> UnsetMessage] : n \in EventIds, ps \in PayloadLists }
    \cup
    { [event_id |-> n, event_type |-> t, payloads |-> <<>>, failure |-> f] :
        n \in EventIds, t \in FailedTypes, f \in Failures }
    \cup
    { [event_id |-> n, event_type |-> t, payloads |-> <<>>, failure |-> UnsetMessage] :
        n \in EventIds, t \in EventTypes \ (FailedTypes \cup {"ACTIVITY_TASK_SCHEDULED"}) }

\* The outcome of a derivation: not run yet, a value, or the error raised.
NotDerived == [status |-> "none", value |-> None]
Derived(v) == [status |-> "ok", value |-> v]
DeriveError(kind) == [status |-> kind, value |-> None]

\* orjson.loads(data)
orjson_loads(data) ==
    IF data.json THEN Derived(data.doc) ELSE DeriveError("JSONDecodeError")

\* UDFActionInput(**data): the task and the run context are required.
UDFActionInput(doc) ==
    IF {"task", "run_context"} \subseteq DOMAIN doc
    THEN Derived([task |-> doc.task, run_context |-> doc.run_context])
    ELSE DeriveError("ValidationError")

\* Variant of EventGroup: action_result is filled at construction.
EventGroupWithResult(event_id, ns, name, action_input) ==
    [event_id |-> event_id,
     udf_namespace |-> ns,
     udf_name |-> name,
     udf_key |-> action_input.task.action,
     action_id |-> action_input.task.id,
     action_ref |-> action_input.task.ref,
     action_title |-> action_input.task.title,
     action_description |-> action_input.task.description,
     action_input |-> action_input,
     action_result |-> action_input.task.ref]

\* EventGroup(event_id=..., ..., action_input=action_input): action_result
\* is not passed and keeps its default.
EventGroup(event_id, ns, name, action_input) ==
    [event_id |-> event_id,
     udf_namespace |-> ns,
     udf_name |-> name,
     udf_key |-> action_input.task.action,
     action_id |-> action_input.task.id,
     action_ref |-> action_input.task.ref,
     action_title |-> action_input.task.title,
     action_description |-> action_input.task.description,
     action_input |-> action_input,
     action_result |-> None]

\* The body of from_scheduled_activity after the check of the event type.
LoadEventGroup(ev) ==
    IF Len(ev.payloads) = 0 THEN DeriveError("IndexError")
    ELSE LET action_stmt_data == orjson_loads(ev.payloads[1])
         IN IF action_stmt_data.status # "ok" THEN action_stmt_data
            ELSE LET action_input == UDFActionInput(action_stmt_data.value)
                 IN IF action_input.status # "ok" THEN action_input
                    ELSE LET d == destructure_slugified_namespace(
                                      action_input.value.task.action, ".")
                         IN Derived(EventGroup(ev.event_id, d[1], d[2],
                                               action_input.value))

\* Variant of from_scheduled_activity: the event type is not checked.
from_scheduled_activity_unchecked(ev) == LoadEventGroup(ev)

\* EventGroup.from_scheduled_activity(event)
from_scheduled_activity(ev) ==
    IF ev.event_type # "ACTIVITY_TASK_SCHEDULED"
    THEN DeriveError("UnsupportedEventKind")
    ELSE LoadEventGroup(ev)

\* Field names of the messages whose values are messages themselves.
MessageFields == {"cause", "application_failure_info"}

\* protobuf's JSON name of a field.
JsonName(f) ==
    CASE f = "stack_trace" -> "stackTrace"
      [] f = "application_failure_info" -> "applicationFailureInfo"
      [] f = "non_retryable" -> "nonRetryable"
      [] OTHER -> f

\* MessageToDict(message): the fields that are set, under their JSON names.
RECURSIVE MessageToDict(_)
MessageToDict(m) ==
    [k \in { JsonName(f) : f \in DOMAIN m } |->
        LET f == CHOOSE g \in DOMAIN m : JsonName(g) = k
        IN IF f \in MessageFields THEN MessageToDict(m[f]) ELSE m[f]]

\* message.<field>: the value set, or the default of the field's type.
FieldOf(m, f, default) == IF f \in DOMAIN m THEN m[f] ELSE default

\* EventFailure(message=, stack_trace=, cause=, application_failure_info=);
\* failure.cause is a message and never None, so it is always converted.
EventFailure(f) ==
    [message |-> FieldOf(f, "message", ""),
     stack_trace |-> FieldOf(f, "stack_trace", ""),
     cause |-> MessageToDict(FieldOf(f, "cause", UnsetMessage)),
     application_failure_info |->
         MessageToDict(FieldOf(f, "application_failure_info", UnsetMessage))]

\* EventFailure.from_history_event(event)
from_history_event(ev) ==
    IF ev.event_type = "ACTIVITY_TASK_FAILED" THEN Derived(EventFailure(ev.failure))
    ELSE IF ev.event_type = "WORKFLOW_EXECUTION_FAILED" THEN Derived(EventFailure(ev.failure))
    ELSE DeriveError("UnsupportedEventKind")

\* A caller derives the event group of the event.
DeriveGroup ==
    /\ group' = from_scheduled_activity(event)
    /\ UNCHANGED <<event, failure, ctlVars, regVars>>

\* A caller derives the failure of the event.
DeriveFailure ==
    /\ failure' = from_history_event(event)
    /\ UNCHANGED <<event, group, ctlVars, regVars>>

HistInit ==
    /\ event \in HistoryEvents
    /\ group = NotDerived
    /\ failure = NotDerived
    /\ CtlIdle
    /\ RegIdle

HistNext ==
    \/ DeriveGroup
    \/ DeriveFailure

SpecHist == HistInit /\ [][HistNext]_vars

\* ======================================================================
\* Properties of the Action Invocation Controller
\* ======================================================================

\* The awaited client call raised an exception of class c (or a subclass).
DispatchRaised(c) ==
    /\ outcome.kind = "raise"
    /\ dispatched > 0
    /\ reply.kind = "raise"
    /\ IsInstance(reply.exc, c)

\* The exception that left the activity is a structured failure.
SurfacedFailure == outcome.kind = "raise" /\ outcome.exc.cls = "ApplicationError"

\* The error is neither a domain action error nor a structured failure.
UnknownRaised ==
    /\ DispatchRaised("Exception")
    /\ ~IsInstance(reply.exc, "RegistryActionError")
    /\ ~IsInstance(reply.exc, "ApplicationError")

\* C1 (as stated): when dispatch raises a domain action error, the failure
\* surfaced has its retryable flag equal to the retry intent the action set
\* on the error.
C1_RetryIntentPreserved ==
    DispatchRaised("RegistryActionError") =>
        /\ SurfacedFailure
        /\ outcome.exc.non_retryable = ~reply.exc.retryable

\* C2 (as stated): an exception that is neither a domain action error nor a
\* structured failure is surfaced as non-retryable, in memory and store mode.
C2_UnknownAlwaysFatal ==
    UnknownRaised => (SurfacedFailure /\ outcome.exc.non_retryable)

\* C2 (amended): such an exception is surfaced as non-retryable by the
\* memory-backend activity, and as retryable by the store-backend activity.
C2_UnknownFatalInMemoryMode ==
    UnknownRaised =>
        /\ SurfacedFailure
        /\ outcome.exc.non_retryable = (mode = "memory")

C2_Witness ==
    /\ UnknownRaised
    /\ mode = "memory"
    /\ pc = "Failed"
    /\ outcome.exc.non_retryable

\* The error info attached to the surfaced failure names the current attempt.
CurrentAttemptAttached ==
    /\ Len(outcome.exc.details) = 1
    /\ outcome.exc.details[1].attempt = attempt

\* C3 (as stated): a structured failure raised by dispatch is re-raised with
\* the same non_retryable flag and type tag and with the current attempt
\* number, in memory and store mode.
C3_PassThroughPreserved ==
    DispatchRaised("ApplicationError") =>
        /\ SurfacedFailure
        /\ outcome.exc.non_retryable = reply.exc.non_retryable
        /\ outcome.exc.type = reply.exc.type
        /\ CurrentAttemptAttached

\* C3 (amended): the memory-backend activity re-raises it with the same
\* non_retryable flag and type tag; the store-backend activity re-raises it
\* retryable and without a type tag; both attach the current attempt number.
C3_PassThroughByMode ==
    DispatchRaised("ApplicationError") =>
        /\ SurfacedFailure
        /\ CurrentAttemptAttached
        /\ mode = "memory" =>
              /\ outcome.exc.non_retryable = reply.exc.non_retryable
              /\ outcome.exc.type = reply.exc.type
        /\ mode = "store" =>
              /\ outcome.exc.non_retryable = FALSE
              /\ outcome.exc.type = None

C3_Witness ==
    /\ DispatchRaised("ApplicationError")
    /\ mode = "memory"
    /\ reply.exc.non_retryable
    /\ reply.exc.type = "CustomError"
    /\ Len(reply.exc.details) = 1
    /\ reply.exc.details[1].attempt # attempt
    /\ pc = "Failed"

\* C4: every failure that leaves the activity because dispatch raised an
\* exception other than a cancellation is an ApplicationError carrying one
\* DSLTaskErrorInfo with the task's ref and the current attempt number.
C4_FailuresAlwaysWrapped ==
    DispatchRaised("Exception") =>
        /\ pc = "Failed"
        /\ SurfacedFailure
        /\ CurrentAttemptAttached
        /\ outcome.exc.details[1].ref = task.ref

C4_Witness ==
    /\ DispatchRaised("Exception")
    /\ mode = "store"
    /\ reply.exc.cls = "TimeoutError"
    /\ attempt > 1
    /\ pc = "Failed"

\* C5: the client is not called before the whole start delay has elapsed;
\* an attempt cancelled while delaying ends without the client ever being
\* called; without a start delay the attempt goes from Pending straight to
\* Dispatching.
C5_DelayBeforeDispatch ==
    /\ [](dispatched > 0 => slept = task.start_delay)
    /\ [][(pc = "Delaying" /\ pc' = "Cancelled") => dispatched' = 0]_vars
    /\ [][(pc = "Pending" /\ task.start_delay > 0) =>
             (pc' = "Delaying" /\ dispatched' = 0)]_vars
    /\ [][(pc = "Pending" /\ task.start_delay = 0) => pc' = "Dispatching"]_vars
    /\ [][pc = "Cancelled" => pc' = "Cancelled"]_vars

C5_Witness ==
    /\ pc = "Cancelled"
    /\ task.start_delay > 0
    /\ slept > 0
    /\ slept < task.start_delay
    /\ dispatched = 0

\* C6: a cancellation delivered during the delay or during dispatch leaves
\* the activity as that cancellation: no except clause turns it into an
\* ApplicationError and no failure branch logs it.
C6_CancellationPropagates ==
    (reply.kind = "raise" /\ reply.exc.cls = "CancelledError") =>
        /\ outcome = Raise(CancelledError)
        /\ pc = "Cancelled"
        /\ \A i \in 1..Len(logs) : logs[i] # "error"

C6_Witness ==
    /\ reply.kind = "raise"
    /\ reply.exc.cls = "CancelledError"
    /\ dispatched = 1
    /\ mode = "memory"
    /\ pc = "Cancelled"

\* C7: on success the store-backend activity returns the pointer made of
\* the client's handle, never the handle or the value behind it; the
\* memory-backend activity returns the client's value unchanged.
C7_SuccessReturnValue ==
    pc = "Succeeded" =>
        /\ outcome.kind = "return"
        /\ reply.kind = "return"
        /\ mode = "store" =>
              /\ outcome.value = to_pointer(reply.value)
              /\ outcome.value # reply.value
              /\ outcome.value # reply.value.value
        /\ mode = "memory" => outcome.value = reply.value

C7_Witness ==
    /\ pc = "Succeeded"
    /\ mode = "store"
    /\ reply.value.value.raw = "large"
    /\ outcome.value = [ptr |-> <<"store://", "large">>]

\* ======================================================================
\* Properties of the Action Registry and its wrappers
\* ======================================================================

\* The environment an invocation's implementation would see if only its own
\* sandbox had injected into it.
OwnEnv(c) == SandboxEnter(<<>>, c.w.secrets, c.role)

\* C8: an invocation that opened the Secret Sandbox has released it when it
\* ends, whether the implementation returned, raised or was cancelled; when
\* no invocation is inside its sandbox, no injected secret is left.
C8_SandboxReleased ==
    /\ \A i \in Invocations : inv[i].pc \in Ended => ~inv[i].open
    /\ (\A i \in Invocations : inv[i].pc # "running") => DOMAIN env = {}

C8_Witness ==
    /\ inv["A"].pc = "cancelled"
    /\ inv["A"].ran
    /\ inv["A"].w.secrets = {"s1"}
    /\ inv["B"].pc = "raised"
    /\ inv["B"].result = "ImplError"
    /\ inv["B"].w.secrets = {"s2"}
    /\ DOMAIN env = {}

\* C9 (as stated): the implementation of an invocation only ever sees the
\* secret state injected for that invocation: nothing injected for another
\* invocation is visible to it and nothing it needs has been removed by
\* another invocation's release.
C9_SecretsIsolated ==
    \A i \in Invocations : inv[i].ran => inv[i].seen = OwnEnv(inv[i])

\* C10: a register call whose key is already in the registry ends in
\* DuplicateKey and leaves every entry of the registry, the one under that
\* key included, as it was.
C10_DuplicateRejected ==
    [][(regCalls' # regCalls /\ regResult'.key \in DOMAIN registry) =>
          (regResult'.status = "DuplicateKey" /\ registry' = registry)]_vars

C10_Witness ==
    /\ regResult.status = "DuplicateKey"
    /\ regResult.key \in DOMAIN registry
    /\ Cardinality(DOMAIN registry) = 2
    /\ \E k \in DOMAIN registry : registry[k].secrets # {}

\* The derived schema of the action an invocation called.
SchemaOf(c) == registry[c.w.key].args_cls

\* C11: a wrapper called with a positional argument fails with
\* KeywordArgsRequired; its sandbox is never opened and its implementation
\* is not called.
C11_PositionalRejected ==
    \A i \in DOMAIN inv :
        (inv[i].pc # "idle" /\ inv[i].npos > 0) =>
            /\ inv[i].pc = "raised"
            /\ inv[i].result = "KeywordArgsRequired"
            /\ ~inv[i].opened
            /\ ~inv[i].ran

C11_Witness ==
    /\ inv["A"].pc = "raised"
    /\ inv["A"].w.async
    /\ inv["A"].npos = 1
    /\ inv["A"].kwargs = [a |-> IntVal(1)]
    /\ inv["A"].result = "KeywordArgsRequired"
    /\ inv["B"].pc = "raised"
    /\ ~inv["B"].w.async
    /\ inv["B"].npos = 1
    /\ inv["B"].result = "KeywordArgsRequired"

\* The keyword arguments lack a required field of the schema.
MissingRequired(args_cls, kwargs) ==
    \E f \in DOMAIN args_cls : args_cls[f].required /\ f \notin DOMAIN kwargs

\* The keyword arguments hold a field the schema does not declare.
HasUndeclared(args_cls, kwargs) == \E f \in DOMAIN kwargs : f \notin DOMAIN args_cls

\* C12 (as stated): a wrapper called by keyword only, with a required field
\* missing or with a field the schema does not declare, fails with
\* ArgsValidationFailed and its implementation is not invoked.
C12_BadKwargsRejected ==
    \A i \in DOMAIN inv :
        (/\ inv[i].pc # "idle"
         /\ inv[i].npos = 0
         /\ \/ MissingRequired(SchemaOf(inv[i]), inv[i].kwargs)
            \/ HasUndeclared(SchemaOf(inv[i]), inv[i].kwargs)) =>
            /\ inv[i].pc = "raised"
            /\ inv[i].result = "ArgsValidationFailed"
            /\ ~inv[i].ran

\* ======================================================================
\* Properties of the Execution-History Correlator
\* ======================================================================

\* C13: from_scheduled_activity rejects exactly the events that are not of
\* kind activity-scheduled, from_history_event succeeds for the events of
\* kind activity-failed or workflow-execution-failed and rejects exactly the
\* others; both reject with UnsupportedEventKind.
C13_UnsupportedKindsRejected ==
    /\ group.status # "none" =>
          /\ (group.status = "UnsupportedEventKind") <=>
                (event.event_type # "ACTIVITY_TASK_SCHEDULED")
          /\ group.status = "ok" => event.event_type = "ACTIVITY_TASK_SCHEDULED"
    /\ failure.status # "none" =>
          /\ (failure.status = "UnsupportedEventKind") <=>
                (event.event_type \notin FailedTypes)
          /\ (failure.status = "ok") <=> (event.event_type \in FailedTypes)

C13_Witness ==
    /\ event.event_type = "WORKFLOW_EXECUTION_STARTED"
    /\ group.status = "UnsupportedEventKind"
    /\ failure.status = "UnsupportedEventKind"

\* The action key recorded in the first payload of the event.
RecordedKey == event.payloads[1].doc.task.action

HasDelimiter(k) == \E i \in 1..Len(k) : k[i] = "."

\* C14: the event group derived from a scheduled event has the recorded
\* action key K as its key; when K holds a delimiter, the namespace is what
\* precedes the last delimiter and the name what follows it, so that
\* namespace + "." + name = K; otherwise the namespace is empty and the name
\* is K.
C14_KeySplitAtLastDelimiter ==
    group.status = "ok" =>
        LET g == group.value
        IN /\ g.udf_key = RecordedKey
           /\ ~HasDelimiter(g.udf_name)
           /\ HasDelimiter(RecordedKey) =>
                 g.udf_namespace \o <<".">> \o g.udf_name = RecordedKey
           /\ ~HasDelimiter(RecordedKey) =>
                 (g.udf_namespace = <<>> /\ g.udf_name = RecordedKey)

C14_Witness ==
    /\ group.status = "ok"
    /\ RecordedKey = <<"a", ".", "b", ".", "a">>
    /\ group.value.udf_namespace = <<"a", ".", "b">>
    /\ group.value.udf_name = <<"a">>

\* C20: every event group from_scheduled_activity produces has no
\* action_result.
C20_ActionResultAbsent ==
    group.status = "ok" => group.value.action_result = None

C20_Witness ==
    /\ group.status = "ok"
    /\ group.value.action_id = "act-1"
    /\ group.value.action_result = None
    /\ Len(event.payloads) = 2

\* ======================================================================
\* Properties of registration
\* ======================================================================

\* C16 (as stated): every register call whose implementation is not
\* callable ends in NotCallable and leaves the registry as it was.
C16_NonCallableRejected ==
    [][(regCalls' # regCalls /\ ~regResult'.callable) =>
          (regResult'.status = "NotCallable" /\ registry' = registry)]_vars

\* ======================================================================
\* Properties of one attempt
\* ======================================================================

Terminal == {"Succeeded", "Failed", "Cancelled"}

\* The states of one attempt fit together: the client is called at most
\* once and not before the delay is over, an outcome exists exactly in the
\* end states, a failure is classified only once the client call has raised,
\* and an attempt whose exception is not a cancellation ends Succeeded with a
\* value or Failed with a structured failure that is retryable or fatal.
AttemptStates ==
    /\ dispatched \in {0, 1}
    /\ pc \in {"Pending", "Delaying"} => (dispatched = 0 /\ reply.kind = "none")
    /\ pc = "Dispatching" => (dispatched = 1 /\ reply.kind = "none")
    /\ (outcome.kind # "none") <=> (pc \in Terminal)
    /\ SurfacedFailure => (dispatched = 1 /\ reply.kind = "raise")
    /\ pc = "Succeeded" => (dispatched = 1 /\ reply.kind = "return" /\ outcome.kind = "return")
    /\ pc = "Failed" => (SurfacedFailure /\ outcome.exc.non_retryable \in BOOLEAN)
    /\ pc = "Cancelled" => (outcome.kind = "raise" /\ outcome.exc = CancelledError)
    /\ pc \in Terminal =>
          ((outcome.kind = "raise" /\ outcome.exc = CancelledError) <=> (pc = "Cancelled"))

\* C17: within one attempt the client is called at most once and never again
\* after it replied, failures are classified only after the client call
\* raised, every attempt that is not cancelled ends in exactly one of
\* Succeeded, Failed(retryable), Failed(fatal), and an ended attempt takes no
\* further step.
C17_SingleDispatchThenEnd ==
    /\ []AttemptStates
    /\ [][/\ reply.kind # "none" => (dispatched' = dispatched /\ pc' = pc)
          /\ pc \in Terminal => FALSE
          /\ dispatched' \in {dispatched, dispatched + 1}]_vars

C17_Witness ==
    /\ pc = "Failed"
    /\ dispatched = 1
    /\ task.start_delay > 0
    /\ slept = task.start_delay
    /\ mode = "memory"
    /\ ~outcome.exc.non_retryable
    /\ attempt = MaxAttempt

\* C18 (as stated): in both modes, whenever a structured failure has been
\* raised to the caller, an error record was logged in the same attempt.
C18_FailureLogged ==
    SurfacedFailure => \E i \in 1..Len(logs) : logs[i] = "error"

\* C19: in every step of registering, looking up, listing schemas and
\* invoking wrappers, each key already registered stays mapped to the same
\* entry; the mapping changes only in a successful register call, and then
\* only by gaining that call's key, which was not mapped before; a lookup or
\* a schema listing changes neither the mapping nor any invocation nor the
\* environment; a step of an invocation leaves the mapping as it was.
C19_EntriesReadOnly ==
    [][/\ \A k \in DOMAIN registry :
             k \in DOMAIN registry' /\ registry'[k] = registry[k]
       /\ registry' # registry =>
             /\ regCalls' = regCalls + 1
             /\ regResult'.status = "registered"
             /\ regResult'.key \notin DOMAIN registry
             /\ DOMAIN registry' = DOMAIN registry \cup {regResult'.key}
             /\ inv' = inv
       /\ readResult' # readResult =>
             (registry' = registry /\ inv' = inv /\ env' = env)
       /\ inv' # inv => registry' = registry]_vars

C19_Witness ==
    /\ Cardinality(DOMAIN registry) = 2
    /\ regResult.status = "DuplicateKey"
    /\ readResult.op = "get_schemas"
    /\ DOMAIN readResult.value.schemas = DOMAIN registry
    /\ inv["A"].pc = "raised"
    /\ inv["A"].ran

\* ======================================================================
\* Properties of the type tag of a surfaced failure
\* ======================================================================

\* The error info attached to the surfaced failure.
SurfacedInfo == outcome.exc.details[1]

\* C21 (as stated): for every failure surfaced after dispatch raised, in
\* both modes, the type of the ApplicationError equals the type field of
\* the DSLTaskErrorInfo attached to it.
C21_TagEqualsInfoType ==
    (DispatchRaised("Exception") /\ SurfacedFailure) =>
        outcome.exc.type = SurfacedInfo.type

\* C21 (amended): the attached error info always names a type. In memory
\* mode a domain error and an unknown error surface with the class name of
\* the raised exception both as the failure's type and as the info's type;
\* a pass-through failure surfaces with the nested failure's own type, and
\* the info's type equals it when it is set and is the class name
\* ApplicationError when it is not. In store mode the surfaced failure has
\* no type and the info's type is the class name of the raised exception.
C21_TagByBranch ==
    (DispatchRaised("Exception") /\ SurfacedFailure) =>
        /\ SurfacedInfo.type \notin {None, ""}
        /\ (mode = "memory" /\ ~IsInstance(reply.exc, "ApplicationError")) =>
              /\ outcome.exc.type = reply.exc.cls
              /\ SurfacedInfo.type = outcome.exc.type
        /\ (mode = "memory" /\ IsInstance(reply.exc, "ApplicationError")) =>
              /\ outcome.exc.type = reply.exc.type
              /\ SurfacedInfo.type =
                    IF outcome.exc.type \in {None, ""} THEN "ApplicationError"
                    ELSE outcome.exc.type
        /\ mode = "store" =>
              /\ outcome.exc.type = None
              /\ SurfacedInfo.type = reply.exc.cls

C21_Witness ==
    /\ DispatchRaised("RegistryActionError")
    /\ SurfacedFailure
    /\ mode = "memory"
    /\ outcome.exc.type = "RegistryActionError"
    /\ SurfacedInfo.type = "RegistryActionError"
    /\ pc = "Failed"

\* ======================================================================
\* Properties of argument checking in the wrapper
\* ======================================================================

ArgErrors == {"KeywordArgsRequired", "ArgsValidationFailed"}

\* The invocation ended with an error of the argument check.
ArgsRejected(c) == c.pc = "raised" /\ c.result \in ArgErrors

\* C22: an invocation that ends in KeywordArgsRequired or
\* ArgsValidationFailed has opened no sandbox, has not run the
\* implementation and has seen no secret, and the step in which it is
\* rejected leaves the execution environment as it was.
C22_RejectedBeforeSandbox ==
    /\ [](\A i \in DOMAIN inv :
             ArgsRejected(inv[i]) =>
                 /\ ~inv[i].opened
                 /\ ~inv[i].open
                 /\ ~inv[i].ran
                 /\ inv[i].seen = <<>>)
    /\ [][\A i \in DOMAIN inv :
             (~ArgsRejected(inv[i]) /\ ArgsRejected(inv'[i])) => env' = env]_vars

C22_Witness ==
    /\ ArgsRejected(inv["A"])
    /\ inv["A"].result = "ArgsValidationFailed"
    /\ inv["A"].w.async
    /\ inv["A"].w.secrets # {}
    /\ inv["A"].npos = 0
    /\ ~inv["A"].opened

====
